---- MODULE Spec2Model ----
(***************************************************************************)
(* The Shipments view of the paint-damage-prediction web client            *)
(* (frontend/src/pages/ShipmentsPage.tsx): client-side filtering,          *)
(* pagination and filter/page state, with the date helper                  *)
(* frontend/src/utils/dateUtils.ts.                                        *)
(*                                                                         *)
(* Strings are sequences of one-character strings, so that substring       *)
(* search and letter case are computed, not assumed.  An instant is a      *)
(* number of minutes since 00:00 UTC of day 0.                             *)
(***************************************************************************)
EXTENDS Integers, Sequences, FiniteSets, TLC

VARIABLES
    queryStatus,      \* useQuery(["shipments"]): "pending" | "success" | "error"
    shipments,        \* useQuery data; <<>> while undefined
    searchQuery,      \* useState("")
    startDate,        \* useState(""), value of <input type="date">: a day, 0 for ""
    endDate,          \* useState("")
    warehouseFilter,  \* useState("all")
    vehicleFilter,    \* useState("all")
    currentPage,      \* useState(1)
    lastEvent,        \* the handler that ran last and the page it started from
    probe,            \* one application of a pure function: inputs and result
    view,             \* the page component that is mounted: "shipments" | "predictions"
    showForm,         \* useState(false): the create form is open
    form,             \* useState of the form fields (of the mounted page)
    flagged,          \* the form controls the browser reported invalid at the last submit
    requests,         \* the payloads handed to mutate(), oldest first
    toasts,           \* the notifications emitted (react-hot-toast), oldest first
    exportedFiles,    \* the calls of exportToCSV, oldest first
    mutationStatus,   \* useMutation status of the mounted page: idle | pending | success | error
    settled,          \* the number of requests the remote collaborator has answered
    invalidations,    \* the number of calls of queryClient.invalidateQueries
    user,             \* AuthProvider useState<User | null>(null)
    authLoading,      \* AuthProvider useState(true): isLoading
    storedToken,      \* localStorage item "token"
    authHeader,       \* api.defaults.headers.common["Authorization"]
    location,         \* the path the router is at
    initAuth,         \* where the mount-time initAuth() is, and the token it sent
    loginCall,        \* where login() is, the account, and the token it sent
    loginPage         \* LoginPage useState: error and isLoading

\* the state beside the filter, page and query state of the Shipments view
sideVars == << view, showForm, form, flagged, requests, toasts, exportedFiles >>

\* the state of the mutation and of what its callbacks call
mutationVars == << mutationStatus, settled, invalidations >>

\* the session: AuthProvider, the token stores, the router and LoginPage
authVars == << user, authLoading, storedToken, authHeader, location,
               initAuth, loginCall, loginPage >>

vars == << queryStatus, shipments, searchQuery, startDate, endDate,
           warehouseFilter, vehicleFilter, currentPage, lastEvent, probe,
           view, showForm, form, flagged, requests, toasts, exportedFiles,
           mutationStatus, settled, invalidations,
           user, authLoading, storedToken, authHeader, location,
           initAuth, loginCall, loginPage >>

viewVars == << queryStatus, shipments, searchQuery, startDate, endDate,
               warehouseFilter, vehicleFilter, currentPage, lastEvent >>

-----------------------------------------------------------------------------
(* Bounds of the model *)

\* longest record list a fetch returns
MaxRecords == 21

\* date inputs range over the days 1..MaxDay (and the empty input); records are
\* dated on the days 0..MaxDay+1
MaxDay == 1

\* longest query handed to matchesSearch when it is applied on its own
MaxQueryLen == 2

\* records 1..MaxProbeRecord are handed to matchesSearch
MaxProbeRecord == 6

\* longest record list handed to the filter when it is applied on its own,
\* and the last offset at which such a list starts in the collection
MaxFilterLen == 3
MaxFilterFrom == 5

\* days 0..MaxProbeDay are handed to isDateInRange
MaxProbeDay == 1

\* the number of error notifications of a form that are followed, and the
\* number of requests a form sends
MaxSubmitErrors == 2
MaxRequests == 2

\* the longest response the export is applied to (more than one page), and
\* the number of clicks on Export CSV that are followed
MaxExportRecords == 17
MaxExports == 2

-----------------------------------------------------------------------------
(* Strings *)

UpperLetters ==
    << "A", "B", "C", "D", "E", "F", "G", "H", "I", "J", "K", "L", "M",
       "N", "O", "P", "Q", "R", "S", "T", "U", "V", "W", "X", "Y", "Z" >>

LowerLetters ==
    << "a", "b", "c", "d", "e", "f", "g", "h", "i", "j", "k", "l", "m",
       "n", "o", "p", "q", "r", "s", "t", "u", "v", "w", "x", "y", "z" >>

Digits == << "0", "1", "2", "3", "4", "5", "6", "7", "8", "9" >>

\* the lower-case letter of each upper-case letter
LowerOf ==
    [ c \in { UpperLetters[i] : i \in 1..Len(UpperLetters) } |->
        LowerLetters[CHOOSE i \in 1..Len(UpperLetters) : UpperLetters[i] = c] ]

\* String.prototype.toLowerCase on one character
toLowerChar(c) == IF c \in DOMAIN LowerOf THEN LowerOf[c] ELSE c

\* String.prototype.toLowerCase
toLowerCase(s) == [i \in 1..Len(s) |-> toLowerChar(s[i])]

\* String.prototype.includes: q occurs in s as a contiguous substring
includes(s, q) ==
    \E i \in 0..(Len(s) - Len(q)) : SubSeq(s, i + 1, i + Len(q)) = q

\* Number.prototype.toString of a non-negative integer: its decimal digits
RECURSIVE toString(_)
toString(n) ==
    IF n < 10 THEN << Digits[n + 1] >>
    ELSE toString(n \div 10) \o << Digits[(n % 10) + 1] >>

-----------------------------------------------------------------------------
(* Values of the program *)

NAG == << "N", "A", "G" >>
MUM == << "M", "U", "M" >>
GOA == << "G", "O", "A" >>
KOL == << "K", "O", "L" >>
PUN == << "P", "U", "N" >>

Autorickshaw == << "A", "u", "t", "o", "r", "i", "c", "k", "s", "h", "a", "w" >>
Vikram == << "V", "i", "k", "r", "a", "m" >>
Minitruck == << "M", "i", "n", "i", "t", "r", "u", "c", "k" >>

warehouses == << NAG, MUM, GOA, KOL, PUN >>
vehicles == << Autorickshaw, Vikram, Minitruck >>
ITEMS_PER_PAGE == 10

\* the option value "all" of both select boxes
all == << "a", "l", "l" >>

\* the empty string
empty == << >>

\* the value "" of a date input
noDate == 0

MinutesPerDay == 24 * 60

-----------------------------------------------------------------------------
(* Records the remote collaborator returns (ShipmentResponse).  Record k of *)
(* the collaborator's collection; _id is unique, the other fields cycle     *)
(* through samples with different periods so that all combinations occur.   *)

dealerSamples == << 5, 17, 100, 1 >>

productSamples ==
    << << "1", "2", "3", "4", "5", "6", "7", "8", "9" >>,
       << "9", "0", "0", "1", "7", "0", "0", "5", "5" >> >>

\* time of day of a record, in minutes: midnight, noon, 23:59
minuteSamples == << 0, 12 * 60, 23 * 60 + 59 >>

ShipmentRecord(k) ==
    [ _id          |-> k,
      date         |-> [ type   |-> "string",
                         day    |-> (k - 1) % (MaxDay + 2),
                         minute |-> minuteSamples[(((k - 1) \div 2) % 3) + 1] ],
      dealer_code  |-> dealerSamples[((k - 1) % 4) + 1],
      warehouse    |-> warehouses[((k - 1) % 5) + 1],
      product_code |-> productSamples[(((k - 1) \div 3) % 2) + 1],
      vehicle      |-> vehicles[((k - 1) % 3) + 1],
      shipped      |-> 10 + k ]

\* the response of GET /shipments holding records from+1 .. from+n
Dataset(from, n) == [i \in 1..n |-> ShipmentRecord(from + i)]

\* the lengths of the responses a fetch of the view may receive: none, one full
\* page, two full pages, and the longest list (a third, short page)
ResponseLengths == { 0, ITEMS_PER_PAGE, 2 * ITEMS_PER_PAGE, MaxRecords }

FetchResponses == { Dataset(0, n) : n \in ResponseLengths }

\* damage_rate: the fraction returned / shipped the backend computed
Rate(returned, shipped) == [ num |-> returned, den |-> shipped ]

\* record k with the optional fields of ShipmentResponse (returned?,
\* damage_rate?, loss_value?) in the four stages a shipment goes through:
\* no return recorded; a return of 0 recorded and evaluated; a return
\* recorded and evaluated; a return recorded, not evaluated yet
ReturnsRecord(k) ==
    LET s == ShipmentRecord(k)
        r == 1 + (k % 3)
    IN  CASE k % 4 = 1 -> s
          [] k % 4 = 2 -> s @@ [ returned |-> 0, damage_rate |-> Rate(0, s.shipped),
                                 loss_value |-> 0 ]
          [] k % 4 = 3 -> s @@ [ returned |-> r, damage_rate |-> Rate(r, s.shipped),
                                 loss_value |-> 250 * r ]
          [] OTHER     -> s @@ [ returned |-> r ]

ReturnsDataset(n) == [i \in 1..n |-> ReturnsRecord(i)]

ExportLengths == { 0, 4, MaxExportRecords }

ExportResponses == { ReturnsDataset(n) : n \in ExportLengths }

-----------------------------------------------------------------------------
(* dateUtils.ts and the Date constructor *)

\* values are tagged with their JavaScript type: an ISO string
\* [type |-> "string", day, minute], a Date holding an instant, or null
null == [ type |-> "null" ]

Date(time) == [ type |-> "Date", time |-> time ]

\* new Date(isoString) for a record's date
newDateFromIso(date) == Date(date.day * MinutesPerDay + date.minute)

\* new Date("yyyy-MM-dd") for the value of a date input: 00:00 UTC of that day
newDateFromInput(day) == Date(day * MinutesPerDay)

\* isDateInRange with the end bound exclusive (>= for >)
isDateInRange_exclusiveEnd(date, start, end) ==
    LET checkDate == IF date.type = "string" THEN newDateFromIso(date) ELSE date
    IN  IF start # null /\ checkDate.time < start.time THEN FALSE
        ELSE IF end # null /\ checkDate.time >= end.time THEN FALSE
        ELSE TRUE

isDateInRange(date, start, end) ==
    LET checkDate == IF date.type = "string" THEN newDateFromIso(date) ELSE date
    IN  IF start # null /\ checkDate.time < start.time THEN FALSE
        ELSE IF end # null /\ checkDate.time > end.time THEN FALSE
        ELSE TRUE

-----------------------------------------------------------------------------
(* The derived values of a render: filteredShipments, totalPages,           *)
(* paginatedShipments, hasActiveFilters.  A FilterState is the record of    *)
(* the five filter useState values.                                         *)

FilterState(q, sd, ed, wf, vf) ==
    [ searchQuery |-> q, startDate |-> sd, endDate |-> ed,
      warehouseFilter |-> wf, vehicleFilter |-> vf ]

filterState ==
    FilterState(searchQuery, startDate, endDate, warehouseFilter, vehicleFilter)

emptyFilterState == FilterState(empty, noDate, noDate, all, all)

\* matchesSearch without the toLowerCase of the query
matchesSearch_queryAsTyped(shipment, q) ==
    \/ includes(toString(shipment.dealer_code), q)
    \/ includes(toLowerCase(shipment.warehouse), q)
    \/ includes(toLowerCase(shipment.vehicle), q)
    \/ includes(shipment.product_code, q)

\* the matchesSearch expression of the filter callback
matchesSearch(shipment, q) ==
    LET query == toLowerCase(q)
    IN  \/ includes(toString(shipment.dealer_code), query)
        \/ includes(toLowerCase(shipment.warehouse), query)
        \/ includes(toLowerCase(shipment.vehicle), query)
        \/ includes(shipment.product_code, query)

\* the date range block of the filter callback: TRUE when the record survives it
passesDateRange(shipment, sd, ed) ==
    IF sd # noDate \/ ed # noDate
    THEN LET start == IF sd # noDate THEN newDateFromInput(sd) ELSE null
             end   == IF ed # noDate THEN newDateFromInput(ed) ELSE null
         IN  isDateInRange(shipment.date, start, end)
    ELSE TRUE

\* the callback without its vehicle block
keepShipment_noVehicleBlock(shipment, S) ==
    IF S.searchQuery # empty /\ ~matchesSearch(shipment, S.searchQuery) THEN FALSE
    ELSE IF ~passesDateRange(shipment, S.startDate, S.endDate) THEN FALSE
    ELSE IF S.warehouseFilter # all /\ shipment.warehouse # S.warehouseFilter THEN FALSE
    ELSE TRUE

\* the callback with the vehicle block nested in the warehouse block
keepShipment_vehicleInsideWarehouse(shipment, S) ==
    IF S.searchQuery # empty /\ ~matchesSearch(shipment, S.searchQuery) THEN FALSE
    ELSE IF ~passesDateRange(shipment, S.startDate, S.endDate) THEN FALSE
    ELSE IF S.warehouseFilter # all
         THEN IF shipment.warehouse # S.warehouseFilter THEN FALSE
              ELSE IF S.vehicleFilter # all /\ shipment.vehicle # S.vehicleFilter THEN FALSE
              ELSE TRUE
    ELSE TRUE

\* the callback comparing the warehouse without the test for "all"
keepShipment_allNotExempt(shipment, S) ==
    IF S.searchQuery # empty /\ ~matchesSearch(shipment, S.searchQuery) THEN FALSE
    ELSE IF ~passesDateRange(shipment, S.startDate, S.endDate) THEN FALSE
    ELSE IF shipment.warehouse # S.warehouseFilter THEN FALSE
    ELSE IF S.vehicleFilter # all /\ shipment.vehicle # S.vehicleFilter THEN FALSE
    ELSE TRUE

\* the callback handed to shipments.filter, with its early returns
keepShipment(shipment, S) ==
    IF S.searchQuery # empty /\ ~matchesSearch(shipment, S.searchQuery) THEN FALSE
    ELSE IF ~passesDateRange(shipment, S.startDate, S.endDate) THEN FALSE
    ELSE IF S.warehouseFilter # all /\ shipment.warehouse # S.warehouseFilter THEN FALSE
    ELSE IF S.vehicleFilter # all /\ shipment.vehicle # S.vehicleFilter THEN FALSE
    ELSE TRUE

\* a filter whose callback also rejects index 0
filterShipments_skipsIndexZero(data, S) ==
    LET keep(shipment) == keepShipment(shipment, S)
    IN  IF data = << >> THEN << >> ELSE SelectSeq(Tail(data), keep)

\* shipments.filter(callback): the kept records, in the order of data
filterShipments(data, S) ==
    LET keep(shipment) == keepShipment(shipment, S)
    IN  SelectSeq(data, keep)

filteredShipments ==
    IF queryStatus # "success" THEN << >> ELSE filterShipments(shipments, filterState)

\* Math.floor(n / ITEMS_PER_PAGE) + 1 in place of Math.ceil
totalPagesOf_floorPlusOne(filtered) == (Len(filtered) \div ITEMS_PER_PAGE) + 1

\* Math.ceil(n / ITEMS_PER_PAGE) for n >= 0
totalPagesOf(filtered) == (Len(filtered) + ITEMS_PER_PAGE - 1) \div ITEMS_PER_PAGE

totalPages == totalPagesOf(filteredShipments)

Min(a, b) == IF a < b THEN a ELSE b
Max(a, b) == IF a > b THEN a ELSE b

\* Array.prototype.slice(begin, end) for 0 <= begin <= end
slice(arr, begin, end) == SubSeq(arr, begin + 1, Min(end, Len(arr)))

\* the paginatedShipments memo for a filtered list and a page
paginate(filtered, page) ==
    LET startIndex == (page - 1) * ITEMS_PER_PAGE
    IN  slice(filtered, startIndex, startIndex + ITEMS_PER_PAGE)

\* the page cut from the fetched list instead of the filtered one
paginatedShipments_ofFetched == paginate(shipments, currentPage)

paginatedShipments == paginate(filteredShipments, currentPage)

\* hasActiveFilters looking at the search box and the two selects only
hasActiveFilters_ignoresDates ==
    \/ searchQuery # empty
    \/ warehouseFilter # all
    \/ vehicleFilter # all

hasActiveFilters ==
    \/ searchQuery # empty
    \/ startDate # noDate
    \/ endDate # noDate
    \/ warehouseFilter # all
    \/ vehicleFilter # all

\* the view renders only the spinner while the first fetch is pending
isLoading == queryStatus = "pending"

\* the footer rendered under every table, whatever the number of pages
paginationShown_wheneverRows == Len(paginatedShipments) > 0

\* the Clear All button (and Clear Filters of the empty state) is rendered
clearOffered == ~isLoading /\ hasActiveFilters

\* the Previous / Next buttons are rendered
paginationShown == Len(paginatedShipments) > 0 /\ totalPages > 1

-----------------------------------------------------------------------------
(* handleExportCSV: the projection of a record onto a row of the file *)

\* a cell of a row: a number or a string
Num(n) == [ type |-> "number", value |-> n ]
Str(s) == [ type |-> "string", value |-> s ]

\* two decimal digits
pad2(n) == << Digits[(n \div 10) + 1], Digits[(n % 10) + 1] >>

\* format(new Date(date), "yyyy-MM-dd HH:mm"): the calendar day (written as
\* its ordinal, which stands for its yyyy-MM-dd text), a space, and the
\* time of day; the local time zone is taken to be UTC
formatDateTime(date) ==
    LET t == newDateFromIso(date).time
    IN  toString(t \div MinutesPerDay) \o << " " >>
          \o pad2((t % MinutesPerDay) \div 60) \o << ":" >>
          \o pad2((t % MinutesPerDay) % 60)

\* (x * 100).toFixed(2) + "%": the percentage rounded to hundredths
toPercent(rate) ==
    LET h == (2 * 10000 * rate.num + rate.den) \div (2 * rate.den)
    IN  toString(h \div 100) \o << "." >> \o pad2(h % 100) \o << "%" >>

\* is the optional field present (neither undefined nor null)
has(s, field) == field \in DOMAIN s

\* the Damage Rate cell, were it written with ?? like its two neighbours
damageRateCell_nullish(s) ==
    IF has(s, "damage_rate") THEN Str(toPercent(s.damage_rate)) ELSE Str(empty)

\* s.damage_rate ? (s.damage_rate * 100).toFixed(2) + "%" : ""
damageRateCell(s) ==
    IF has(s, "damage_rate") /\ s.damage_rate.num # 0
    THEN Str(toPercent(s.damage_rate))
    ELSE Str(empty)

\* one element of exportData
exportRow(s) ==
    [ Date         |-> Str(formatDateTime(s.date)),
      Dealer       |-> Num(s.dealer_code),
      Warehouse    |-> Str(s.warehouse),
      Product_Code |-> Str(s.product_code),
      Vehicle      |-> Str(s.vehicle),
      Shipped      |-> Num(s.shipped),
      Returned     |-> IF has(s, "returned") THEN Num(s.returned) ELSE Str(empty),
      Damage_Rate  |-> damageRateCell(s),
      Loss_Value   |-> IF has(s, "loss_value") THEN Num(s.loss_value) ELSE Str(empty) ]

\* the export of the rows on screen only
exportData_currentPage ==
    [i \in 1..Len(paginatedShipments) |-> exportRow(paginatedShipments[i])]

\* filteredShipments.map(...)
exportData ==
    [i \in 1..Len(filteredShipments) |-> exportRow(filteredShipments[i])]

\* new Date().toISOString(): the moment the view is used, as the form state
\* holds it
formDate == [ type |-> "string", day |-> 0, minute |-> 0 ]

\* `shipments_${format(new Date(), "yyyy-MM-dd")}.csv`
exportFilename == [ stem |-> "shipments_", day |-> formDate.day, ext |-> ".csv" ]

Toast(kind, message) == [ kind |-> kind, message |-> message ]

-----------------------------------------------------------------------------
(* The Shipments view as a state machine: one action per event handler.    *)

\* what the user types into the search box of the view
SearchInputs == { empty, << "m", "i" >>, << "1", "7" >> }

\* the values of a date input: "" or a day
DateInputs == 0..MaxDay

\* the option values of the two select boxes
WarehouseOptions == { all } \cup { warehouses[i] : i \in 1..Len(warehouses) }
VehicleOptions == { all } \cup { vehicles[i] : i \in 1..Len(vehicles) }

Event(op) == [ op |-> op, from |-> currentPage ]

noProbe == [ fn |-> "none" ]

\* the initial fields of the create form of the Shipments view
defaultForm ==
    [ date |-> formDate, dealer_code |-> 1, warehouse |-> NAG,
      product_code |-> << "1", "2", "3", "4", "5", "6", "7", "8", "9" >>,
      vehicle |-> Minitruck, shipped |-> 10 ]

\* the state beside the filters when ShipmentsPage mounts
sideAtMount ==
    /\ view = "shipments"
    /\ showForm = FALSE
    /\ form = defaultForm
    /\ flagged = { }
    /\ requests = << >>
    /\ toasts = << >>
    /\ exportedFiles = << >>

\* the session values
noUser == "null"
noToken == "null"

\* the session of a signed-in user on the page that is mounted
authSignedIn ==
    /\ user = "alice"
    /\ authLoading = FALSE
    /\ storedToken = "token-alice"
    /\ authHeader = "token-alice"
    /\ location = (IF view = "shipments" THEN "/shipments" ELSE "/predictions")
    /\ initAuth = [ pc |-> "done", sent |-> "token-alice" ]
    /\ loginCall = [ pc |-> "idle", email |-> "", sent |-> noToken, result |-> "none" ]
    /\ loginPage = [ error |-> "", isLoading |-> FALSE ]

\* no mutation has run
mutationAtMount ==
    /\ mutationStatus = "idle"
    /\ settled = 0
    /\ invalidations = 0

Init ==
    /\ queryStatus = "pending"
    /\ shipments = << >>
    /\ searchQuery = empty
    /\ startDate = noDate
    /\ endDate = noDate
    /\ warehouseFilter = all
    /\ vehicleFilter = all
    /\ currentPage = 1
    /\ lastEvent = [ op |-> "mount", from |-> 1 ]
    /\ probe = noProbe
    /\ sideAtMount
    /\ mutationAtMount
    /\ authSignedIn

\* getShipments resolves (the first fetch or a refetch): data is replaced
FetchSuccess ==
    /\ \E response \in FetchResponses :
          /\ queryStatus' = "success"
          /\ shipments' = response
    /\ lastEvent' = Event("fetch")
    /\ UNCHANGED << searchQuery, startDate, endDate, warehouseFilter,
                    vehicleFilter, currentPage, probe >>
    /\ UNCHANGED sideVars
    /\ UNCHANGED mutationVars
    /\ UNCHANGED authVars

\* the first getShipments fails for good: isLoading ends, data stays undefined
FetchError ==
    /\ queryStatus = "pending"
    /\ queryStatus' = "error"
    /\ lastEvent' = Event("fetchError")
    /\ UNCHANGED << shipments, searchQuery, startDate, endDate, warehouseFilter,
                    vehicleFilter, currentPage, probe >>
    /\ UNCHANGED sideVars
    /\ UNCHANGED mutationVars
    /\ UNCHANGED authVars

\* handleFilterChange leaving the page where it is
handleFilterChange_keepsPage == currentPage' = currentPage

handleFilterChange == currentPage' = 1

\* onChange of the search input
SearchChange ==
    /\ ~isLoading
    /\ \E value \in SearchInputs \ { searchQuery } : searchQuery' = value
    /\ handleFilterChange
    /\ lastEvent' = Event("search")
    /\ UNCHANGED << queryStatus, shipments, startDate, endDate, warehouseFilter,
                    vehicleFilter, probe >>
    /\ UNCHANGED sideVars
    /\ UNCHANGED mutationVars
    /\ UNCHANGED authVars

\* onChange of the Start Date input
StartDateChange ==
    /\ ~isLoading
    /\ \E value \in DateInputs \ { startDate } : startDate' = value
    /\ handleFilterChange
    /\ lastEvent' = Event("startDate")
    /\ UNCHANGED << queryStatus, shipments, searchQuery, endDate, warehouseFilter,
                    vehicleFilter, probe >>
    /\ UNCHANGED sideVars
    /\ UNCHANGED mutationVars
    /\ UNCHANGED authVars

\* onChange of the End Date input
EndDateChange ==
    /\ ~isLoading
    /\ \E value \in DateInputs \ { endDate } : endDate' = value
    /\ handleFilterChange
    /\ lastEvent' = Event("endDate")
    /\ UNCHANGED << queryStatus, shipments, searchQuery, startDate, warehouseFilter,
                    vehicleFilter, probe >>
    /\ UNCHANGED sideVars
    /\ UNCHANGED mutationVars
    /\ UNCHANGED authVars

\* onChange of the Warehouse select
WarehouseChange ==
    /\ ~isLoading
    /\ \E value \in WarehouseOptions \ { warehouseFilter } : warehouseFilter' = value
    /\ handleFilterChange
    /\ lastEvent' = Event("warehouse")
    /\ UNCHANGED << queryStatus, shipments, searchQuery, startDate, endDate,
                    vehicleFilter, probe >>
    /\ UNCHANGED sideVars
    /\ UNCHANGED mutationVars
    /\ UNCHANGED authVars

\* onChange of the Vehicle select
VehicleChange ==
    /\ ~isLoading
    /\ \E value \in VehicleOptions \ { vehicleFilter } : vehicleFilter' = value
    /\ handleFilterChange
    /\ lastEvent' = Event("vehicle")
    /\ UNCHANGED << queryStatus, shipments, searchQuery, startDate, endDate,
                    warehouseFilter, probe >>
    /\ UNCHANGED sideVars
    /\ UNCHANGED mutationVars
    /\ UNCHANGED authVars

\* onClick of Clear All / Clear Filters, rendered when hasActiveFilters
handleClearFilters ==
    /\ ~isLoading
    /\ hasActiveFilters
    /\ searchQuery' = empty
    /\ startDate' = noDate
    /\ endDate' = noDate
    /\ warehouseFilter' = all
    /\ vehicleFilter' = all
    /\ currentPage' = 1
    /\ lastEvent' = Event("clear")
    /\ UNCHANGED << queryStatus, shipments, probe >>
    /\ UNCHANGED sideVars
    /\ UNCHANGED mutationVars
    /\ UNCHANGED authVars

\* Previous without its boundary: no disabled state, no Math.max
PreviousPage_noBoundary ==
    /\ ~isLoading
    /\ paginationShown
    /\ currentPage' = currentPage - 1
    /\ lastEvent' = Event("previous")
    /\ UNCHANGED << queryStatus, shipments, searchQuery, startDate, endDate,
                    warehouseFilter, vehicleFilter, probe >>
    /\ UNCHANGED sideVars
    /\ UNCHANGED mutationVars
    /\ UNCHANGED authVars

\* a click on Previous, rendered in the pagination footer: the button is
\* disabled on page 1 (the click runs no handler), else onClick runs
PreviousPage ==
    /\ ~isLoading
    /\ paginationShown
    /\ currentPage' = IF currentPage = 1 THEN currentPage
                      ELSE Max(1, currentPage - 1)
    /\ lastEvent' = Event("previous")
    /\ UNCHANGED << queryStatus, shipments, searchQuery, startDate, endDate,
                    warehouseFilter, vehicleFilter, probe >>
    /\ UNCHANGED sideVars
    /\ UNCHANGED mutationVars
    /\ UNCHANGED authVars

\* Next without its boundary: no disabled state, no Math.min
NextPage_noBoundary ==
    /\ ~isLoading
    /\ paginationShown
    /\ currentPage' = currentPage + 1
    /\ lastEvent' = Event("next")
    /\ UNCHANGED << queryStatus, shipments, searchQuery, startDate, endDate,
                    warehouseFilter, vehicleFilter, probe >>
    /\ UNCHANGED sideVars
    /\ UNCHANGED mutationVars
    /\ UNCHANGED authVars

\* a click on Next, rendered in the pagination footer: the button is
\* disabled on page totalPages (the click runs no handler), else onClick runs
NextPage ==
    /\ ~isLoading
    /\ paginationShown
    /\ currentPage' = IF currentPage = totalPages THEN currentPage
                      ELSE Min(totalPages, currentPage + 1)
    /\ lastEvent' = Event("next")
    /\ UNCHANGED << queryStatus, shipments, searchQuery, startDate, endDate,
                    warehouseFilter, vehicleFilter, probe >>
    /\ UNCHANGED sideVars
    /\ UNCHANGED mutationVars
    /\ UNCHANGED authVars

Next ==
    \/ FetchSuccess
    \/ FetchError
    \/ SearchChange
    \/ StartDateChange
    \/ EndDateChange
    \/ WarehouseChange
    \/ VehicleChange
    \/ handleClearFilters
    \/ PreviousPage
    \/ NextPage

Spec == Init /\ [][Next]_vars

-----------------------------------------------------------------------------
(* The pure functions applied on their own: the initial state draws the    *)
(* inputs, the one action applies the function and records the result.     *)

viewAtMount ==
    /\ queryStatus = "pending"
    /\ shipments = << >>
    /\ searchQuery = empty
    /\ startDate = noDate
    /\ endDate = noDate
    /\ warehouseFilter = all
    /\ vehicleFilter = all
    /\ currentPage = 1
    /\ lastEvent = [ op |-> "mount", from |-> 1 ]

\* isDateInRange(date, start, end)
ProbeInstants ==
    { day * MinutesPerDay + minuteSamples[m] : day \in 0..MaxProbeDay, m \in 1..3 }

ProbeDates ==
    { [ type |-> "string", day |-> day, minute |-> minuteSamples[m] ] :
          day \in 0..MaxProbeDay, m \in 1..3 }
    \cup { Date(t) : t \in ProbeInstants }

ProbeBounds == { null } \cup { Date(t) : t \in ProbeInstants }

InitDate ==
    /\ viewAtMount
    /\ sideAtMount
    /\ mutationAtMount
    /\ authSignedIn
    /\ probe \in { [ fn |-> "isDateInRange", date |-> d, start |-> st, end |-> en,
                     done |-> FALSE, result |-> FALSE ] :
                       d \in ProbeDates, st \in ProbeBounds, en \in ProbeBounds }

ApplyIsDateInRange ==
    /\ probe.fn = "isDateInRange"
    /\ ~probe.done
    /\ probe' = [ probe EXCEPT !.done = TRUE,
                               !.result = isDateInRange(probe.date, probe.start, probe.end) ]
    /\ UNCHANGED viewVars
    /\ UNCHANGED sideVars
    /\ UNCHANGED mutationVars
    /\ UNCHANGED authVars

SpecDate == InitDate /\ [][ApplyIsDateInRange]_vars

\* matchesSearch(shipment, query)
QueryChars == { "1", "7", "n", "N", "a", "A" }

RECURSIVE StringsUpTo(_)
StringsUpTo(n) ==
    IF n = 0 THEN { empty }
    ELSE StringsUpTo(n - 1)
         \cup { Append(s, c) : s \in { t \in StringsUpTo(n - 1) : Len(t) = n - 1 },
                               c \in QueryChars }

ProbeQueries == StringsUpTo(MaxQueryLen)

ProbeRecords == { ShipmentRecord(k) : k \in 1..MaxProbeRecord }

InitSearch ==
    /\ viewAtMount
    /\ sideAtMount
    /\ mutationAtMount
    /\ authSignedIn
    /\ probe \in { [ fn |-> "matchesSearch", shipment |-> r, query |-> q,
                     done |-> FALSE, result |-> FALSE ] :
                       r \in ProbeRecords, q \in ProbeQueries }

ApplyMatchesSearch ==
    /\ probe.fn = "matchesSearch"
    /\ ~probe.done
    /\ probe' = [ probe EXCEPT !.done = TRUE,
                               !.result = matchesSearch(probe.shipment, probe.query) ]
    /\ UNCHANGED viewVars
    /\ UNCHANGED sideVars
    /\ UNCHANGED mutationVars
    /\ UNCHANGED authVars

SpecSearch == InitSearch /\ [][ApplyMatchesSearch]_vars

\* filterShipments(data, S)
FilterInputs ==
    { Dataset(from, n) : from \in 0..MaxFilterFrom, n \in 0..MaxFilterLen }

FilterStates ==
    { FilterState(q, sd, ed, wf, vf) :
          q \in SearchInputs \cup { << "N", "A" >> },
          sd \in DateInputs, ed \in DateInputs,
          wf \in WarehouseOptions, vf \in VehicleOptions }

InitFilter ==
    /\ viewAtMount
    /\ sideAtMount
    /\ mutationAtMount
    /\ authSignedIn
    /\ probe \in { [ fn |-> "filter", data |-> d, state |-> S,
                     done |-> FALSE, result |-> << >> ] :
                       d \in FilterInputs, S \in FilterStates }

ApplyFilter ==
    /\ probe.fn = "filter"
    /\ ~probe.done
    /\ probe' = [ probe EXCEPT !.done = TRUE,
                               !.result = filterShipments(probe.data, probe.state) ]
    /\ UNCHANGED viewVars
    /\ UNCHANGED sideVars
    /\ UNCHANGED mutationVars
    /\ UNCHANGED authVars

SpecFilter == InitFilter /\ [][ApplyFilter]_vars

-----------------------------------------------------------------------------
(* Export CSV applied to the states of the view: the initial state draws a  *)
(* state the view can be in, the one action is a click on the button.       *)

\* the body of handleExportCSV
handleExportCSV ==
    IF Len(filteredShipments) = 0
    THEN /\ toasts' = Append(toasts, Toast("error", "No data to export"))
         /\ UNCHANGED exportedFiles
    ELSE /\ exportedFiles' =
              Append(exportedFiles, [ data |-> exportData, filename |-> exportFilename ])
         /\ toasts' = Append(toasts, Toast("success", "Shipments exported successfully!"))

\* the button never disabled: every click runs handleExportCSV
ExportClick_alwaysEnabled ==
    /\ ~isLoading
    /\ Len(exportedFiles) < MaxExports
    /\ handleExportCSV
    /\ lastEvent' = Event("export")
    /\ UNCHANGED << queryStatus, shipments, searchQuery, startDate, endDate,
                    warehouseFilter, vehicleFilter, currentPage, probe >>
    /\ UNCHANGED << view, showForm, form, flagged, requests >>
    /\ UNCHANGED mutationVars
    /\ UNCHANGED authVars

\* the handler going back to the first page, as the filter handlers do
ExportClick_resetsPage ==
    /\ ~isLoading
    /\ Len(exportedFiles) < MaxExports
    /\ IF Len(filteredShipments) = 0
       THEN UNCHANGED << toasts, exportedFiles >>
       ELSE handleExportCSV
    /\ handleFilterChange
    /\ lastEvent' = Event("export")
    /\ UNCHANGED << queryStatus, shipments, searchQuery, startDate, endDate,
                    warehouseFilter, vehicleFilter, probe >>
    /\ UNCHANGED << view, showForm, form, flagged, requests >>
    /\ UNCHANGED mutationVars
    /\ UNCHANGED authVars

\* a click on Export CSV: the button is disabled while the filtered list is
\* empty (the click runs no handler), else onClick runs handleExportCSV
ExportClick ==
    /\ ~isLoading
    /\ Len(exportedFiles) < MaxExports
    /\ IF Len(filteredShipments) = 0
       THEN UNCHANGED << toasts, exportedFiles >>
       ELSE handleExportCSV
    /\ lastEvent' = Event("export")
    /\ UNCHANGED << queryStatus, shipments, searchQuery, startDate, endDate,
                    warehouseFilter, vehicleFilter, currentPage, probe >>
    /\ UNCHANGED << view, showForm, form, flagged, requests >>
    /\ UNCHANGED mutationVars
    /\ UNCHANGED authVars

\* a form the user has edited
editedForm == [ defaultForm EXCEPT !.dealer_code = 17, !.shipped = 25 ]

InitExport ==
    /\ queryStatus \in { "success", "error" }
    /\ shipments \in ExportResponses
    /\ queryStatus = "error" => shipments = << >>
    /\ searchQuery \in { empty, << "1", "7" >> }
    /\ startDate \in DateInputs
    /\ endDate = noDate
    /\ warehouseFilter \in { all, NAG }
    /\ vehicleFilter \in { all, Minitruck }
    /\ currentPage \in 1..Max(1, totalPages)
    /\ lastEvent = [ op |-> "render", from |-> currentPage ]
    /\ probe = noProbe
    /\ view = "shipments"
    /\ showForm \in BOOLEAN
    /\ form = IF showForm THEN editedForm ELSE defaultForm
    /\ flagged = { }
    /\ requests = << >>
    /\ toasts = << >>
    /\ exportedFiles = << >>
    /\ mutationAtMount
    /\ authSignedIn

SpecExport == InitExport /\ [][ExportClick]_vars

-----------------------------------------------------------------------------
(* Submitting the create form of ShipmentsPage and the form of              *)
(* PredictionPage: the initial state draws the fields the user has entered, *)
(* the one action is a click on the submit button.                          *)

DigitChars == { Digits[i] : i \in 1..Len(Digits) }

\* /^\d+$/.test(code)
testDigits(code) ==
    /\ Len(code) >= 1
    /\ \A i \in 1..Len(code) : code[i] \in DigitChars

\* the length a product code must have
PRODUCT_CODE_LENGTH == 9

\* the product-code test letting short codes through (length > 9, /^\d*$/)
productCodeRejected_shortAccepted(code) ==
    \/ Len(code) > PRODUCT_CODE_LENGTH
    \/ \E i \in 1..Len(code) : code[i] \notin DigitChars

\* form.product_code.length !== 9 || !/^\d+$/.test(form.product_code)
productCodeRejected(code) ==
    \/ Len(code) # PRODUCT_CODE_LENGTH
    \/ ~testDigits(code)

\* the limits of the dealer code
MIN_DEALER_CODE == 1
MAX_DEALER_CODE == 100

\* the least quantity shipped
MIN_SHIPPED == 1

\* the dealer_code input without min and max
dealerCodeInvalid_unconstrained(value) == FALSE

\* constraint validation of <input type="number" name="dealer_code"
\* min={1} max={100}>: range underflow or overflow.  The input is
\* controlled and handleChange stores Number(value), so its value is the
\* number in the form state and is never the empty string.
dealerCodeInvalid(value) == value < MIN_DEALER_CODE \/ value > MAX_DEALER_CODE

\* the shipped input without min
shippedInvalid_unconstrained(value) == FALSE

\* constraint validation of <input type="number" name="shipped" min={1}>
shippedInvalid(value) == value < MIN_SHIPPED

\* constraint validation of <input type="text" name="product_code"
\* maxLength={9} pattern="\d{9}">: a value that is not empty must match
\* the pattern as a whole; the empty value is invalid only where the
\* input is required, which it is on PredictionPage alone
productCodeInvalid(page, code) ==
    IF code = empty THEN page = "predictions"
    ELSE ~(Len(code) = PRODUCT_CODE_LENGTH /\ testDigits(code))

\* the controls of the form that fail constraint validation
invalidControls(page, f) ==
    { c \in { "dealer_code", "product_code", "shipped" } :
        \/ c = "dealer_code" /\ dealerCodeInvalid(f.dealer_code)
        \/ c = "product_code" /\ productCodeInvalid(page, f.product_code)
        \/ c = "shipped" /\ shippedInvalid(f.shipped) }

\* mutate(form): the payload goes to the remote collaborator
Request(page, f) ==
    [ to |-> IF page = "shipments" THEN "createShipment" ELSE "createPrediction",
      payload |-> f ]

\* mutate(form): the request is sent and the mutation is pending
mutate(page, f) ==
    /\ requests' = Append(requests, Request(page, f))
    /\ mutationStatus' = "pending"

\* handleSubmit without the return after its notification
handleSubmitShipment_noReturn ==
    /\ toasts' = IF productCodeRejected(form.product_code)
                 THEN Append(toasts, Toast("error", "Product code must be exactly 9 digits"))
                 ELSE toasts
    /\ mutate("shipments", form)

\* handleSubmit of ShipmentsPage (after e.preventDefault())
handleSubmitShipment ==
    IF productCodeRejected(form.product_code)
    THEN /\ toasts' = Append(toasts, Toast("error", "Product code must be exactly 9 digits"))
         /\ UNCHANGED << requests, mutationStatus >>
    ELSE /\ mutate("shipments", form)
         /\ UNCHANGED toasts

\* handleSubmit of PredictionPage (after e.preventDefault())
handleSubmitPrediction ==
    IF form.dealer_code < MIN_DEALER_CODE \/ form.dealer_code > MAX_DEALER_CODE
    THEN /\ toasts' = Append(toasts, Toast("error", "Dealer code must be between 1 and 100"))
         /\ UNCHANGED << requests, mutationStatus >>
    ELSE IF productCodeRejected(form.product_code)
    THEN /\ toasts' = Append(toasts, Toast("error", "Product code must be exactly 9 digits"))
         /\ UNCHANGED << requests, mutationStatus >>
    ELSE IF form.shipped < MIN_SHIPPED
    THEN /\ toasts' = Append(toasts, Toast("error", "Shipped quantity must be at least 1"))
         /\ UNCHANGED << requests, mutationStatus >>
    ELSE /\ mutate("predictions", form)
         /\ UNCHANGED toasts

\* the submit button never disabled: a click while the mutation is pending
\* runs handleSubmit too
SubmitClick_whilePending ==
    /\ view = "shipments" => ~isLoading /\ showForm
    /\ Len(requests) < MaxRequests
    /\ Len(toasts) < MaxSubmitErrors
    /\ flagged' = invalidControls(view, form)
    /\ IF invalidControls(view, form) # { }
       THEN UNCHANGED << toasts, requests, mutationStatus >>
       ELSE IF view = "shipments" THEN handleSubmitShipment
            ELSE handleSubmitPrediction
    /\ lastEvent' = Event("submit")
    /\ UNCHANGED << queryStatus, shipments, searchQuery, startDate, endDate,
                    warehouseFilter, vehicleFilter, currentPage, probe >>
    /\ UNCHANGED << view, showForm, form, exportedFiles, settled, invalidations >>
    /\ UNCHANGED authVars

\* a click on the submit button of the form.  The button is disabled while
\* the mutation is pending.  The form has no noValidate, so the browser
\* first validates the constraints of its controls: if one fails it
\* reports the invalid controls and dispatches no submit event; else the
\* submit event runs handleSubmit.
SubmitClick ==
    /\ view = "shipments" => ~isLoading /\ showForm
    /\ mutationStatus # "pending"
    /\ Len(requests) < MaxRequests
    /\ Len(toasts) < MaxSubmitErrors
    /\ flagged' = invalidControls(view, form)
    /\ IF invalidControls(view, form) # { }
       THEN UNCHANGED << toasts, requests, mutationStatus >>
       ELSE IF view = "shipments" THEN handleSubmitShipment
            ELSE handleSubmitPrediction
    /\ lastEvent' = Event("submit")
    /\ UNCHANGED << queryStatus, shipments, searchQuery, startDate, endDate,
                    warehouseFilter, vehicleFilter, currentPage, probe >>
    /\ UNCHANGED << view, showForm, form, exportedFiles, settled, invalidations >>
    /\ UNCHANGED authVars

\* the initial fields of the form of PredictionPage
defaultPayload ==
    [ date |-> formDate, dealer_code |-> 17, warehouse |-> NAG,
      product_code |-> << "3", "2", "1", "1", "2", "3", "6", "7", "8" >>,
      vehicle |-> Minitruck, shipped |-> 25, model |-> "xgboost" ]

\* what the user may have typed into the product code input (at most
\* maxLength characters): every prefix of a valid code, and the valid code
\* with one character replaced by a character that is not a digit
ProductInputs ==
    LET code == defaultForm.product_code IN
    { SubSeq(code, 1, n) : n \in 0..PRODUCT_CODE_LENGTH }
      \cup { [ code EXCEPT ![i] = c ] :
                 i \in 1..PRODUCT_CODE_LENGTH, c \in { "x", " ", "-" } }

\* what the user may have entered into the two number inputs
DealerInputs ==
    { -1, MIN_DEALER_CODE - 1, MIN_DEALER_CODE, 17, MAX_DEALER_CODE, MAX_DEALER_CODE + 1 }

ShippedInputs == { -1, MIN_SHIPPED - 1, MIN_SHIPPED, 25 }

InitSubmit ==
    /\ view \in { "shipments", "predictions" }
    /\ queryStatus = "success"
    /\ shipments = << >>
    /\ searchQuery = empty
    /\ startDate = noDate
    /\ endDate = noDate
    /\ warehouseFilter = all
    /\ vehicleFilter = all
    /\ currentPage = 1
    /\ lastEvent = [ op |-> "render", from |-> 1 ]
    /\ probe = noProbe
    /\ showForm = (view = "shipments")
    /\ \E code \in ProductInputs, dealer \in DealerInputs, quantity \in ShippedInputs :
          form = [ (IF view = "shipments" THEN defaultForm ELSE defaultPayload)
                     EXCEPT !.product_code = code, !.dealer_code = dealer,
                            !.shipped = quantity ]
    /\ flagged = { }
    /\ requests = << >>
    /\ toasts = << >>
    /\ exportedFiles = << >>
    /\ mutationAtMount
    /\ authSignedIn

SpecSubmit == InitSubmit /\ [][SubmitClick]_vars

-----------------------------------------------------------------------------
(* The create form of ShipmentsPage and its mutation: the form is opened,   *)
(* edited and submitted, and the remote collaborator answers each request.  *)

\* the decimal value of a digit
DigitValue(c) == (CHOOSE i \in 1..Len(Digits) : Digits[i] = c) - 1

\* Number(value) of the value of a number input: "" is 0, else the decimal
\* number the digits write
RECURSIVE Number(_)
Number(value) ==
    IF value = empty THEN 0
    ELSE 10 * Number(SubSeq(value, 1, Len(value) - 1)) + DigitValue(value[Len(value)])

\* the change events followed: the name of the control and its new value
ChangeEvents ==
    { [ name |-> "dealer_code", value |-> << "0" >> ],
      [ name |-> "dealer_code", value |-> << "1", "7" >> ],
      [ name |-> "shipped", value |-> << "2", "5" >> ],
      [ name |-> "product_code", value |-> empty ],
      [ name |-> "product_code", value |-> productSamples[2] ] }

\* handleChange: dealer_code and shipped are stored as numbers
handleChange(name, value) ==
    form' = IF name = "dealer_code" THEN [ form EXCEPT !.dealer_code = Number(value) ]
            ELSE IF name = "shipped" THEN [ form EXCEPT !.shipped = Number(value) ]
            ELSE [ form EXCEPT !.product_code = value ]

\* onChange of an input of the open create form
FormChange ==
    /\ view = "shipments"
    /\ ~isLoading
    /\ showForm
    /\ \E e \in ChangeEvents : handleChange(e.name, e.value)
    /\ form' # form
    /\ lastEvent' = Event("change")
    /\ UNCHANGED << queryStatus, shipments, searchQuery, startDate, endDate,
                    warehouseFilter, vehicleFilter, currentPage, probe >>
    /\ UNCHANGED << view, showForm, flagged, requests, toasts, exportedFiles >>
    /\ UNCHANGED mutationVars
    /\ UNCHANGED authVars

\* onClick of New Shipment / Cancel: setShowForm(!showForm)
ToggleForm ==
    /\ view = "shipments"
    /\ ~isLoading
    /\ showForm' = ~showForm
    /\ lastEvent' = Event("toggle")
    /\ UNCHANGED << queryStatus, shipments, searchQuery, startDate, endDate,
                    warehouseFilter, vehicleFilter, currentPage, probe >>
    /\ UNCHANGED << view, form, flagged, requests, toasts, exportedFiles >>
    /\ UNCHANGED mutationVars
    /\ UNCHANGED authVars

\* a create request is in flight
createInFlight == Len(requests) - settled

\* createShipment resolves: onSuccess of createMutation
CreateSuccess ==
    /\ view = "shipments"
    /\ createInFlight > 0
    /\ settled' = settled + 1
    /\ mutationStatus' = "success"
    /\ invalidations' = invalidations + 1
    /\ toasts' = Append(toasts, Toast("success", "Shipment created successfully!"))
    /\ showForm' = FALSE
    /\ form' = defaultForm
    /\ lastEvent' = Event("createSuccess")
    /\ UNCHANGED << queryStatus, shipments, searchQuery, startDate, endDate,
                    warehouseFilter, vehicleFilter, currentPage, probe >>
    /\ UNCHANGED << view, flagged, requests, exportedFiles >>
    /\ UNCHANGED authVars

\* error.response?.data?.detail of a rejection: absent, "" or a message
noDetail == [ type |-> "undefined" ]
Detail(text) == [ type |-> "string", value |-> text ]
Details == { noDetail, Detail(""), Detail("Dealer 17 is not registered") }

\* error.response?.data?.detail || "Failed to create shipment"
createErrorMessage(detail) ==
    IF detail.type = "undefined" THEN "Failed to create shipment"
    ELSE IF detail.value = "" THEN "Failed to create shipment"
    ELSE detail.value

\* onError that closes the form as onSuccess does
CreateError_closesForm ==
    /\ view = "shipments"
    /\ createInFlight > 0
    /\ \E detail \in Details :
          /\ toasts' = Append(toasts, Toast("error", createErrorMessage(detail)))
          /\ lastEvent' = [ op |-> "createError", from |-> currentPage, detail |-> detail ]
    /\ settled' = settled + 1
    /\ mutationStatus' = "error"
    /\ showForm' = FALSE
    /\ UNCHANGED << queryStatus, shipments, searchQuery, startDate, endDate,
                    warehouseFilter, vehicleFilter, currentPage, probe >>
    /\ UNCHANGED << view, form, flagged, requests, exportedFiles, invalidations >>
    /\ UNCHANGED authVars

\* createShipment rejects: onError of createMutation (mutations are not
\* retried)
CreateError ==
    /\ view = "shipments"
    /\ createInFlight > 0
    /\ \E detail \in Details :
          /\ toasts' = Append(toasts, Toast("error", createErrorMessage(detail)))
          /\ lastEvent' = [ op |-> "createError", from |-> currentPage, detail |-> detail ]
    /\ settled' = settled + 1
    /\ mutationStatus' = "error"
    /\ UNCHANGED << queryStatus, shipments, searchQuery, startDate, endDate,
                    warehouseFilter, vehicleFilter, currentPage, probe >>
    /\ UNCHANGED << view, showForm, form, flagged, requests, exportedFiles,
                    invalidations >>
    /\ UNCHANGED authVars

InitCreate ==
    /\ queryStatus = "success"
    /\ shipments = Dataset(0, MaxRecords)
    /\ searchQuery = << "1", "7" >>
    /\ startDate = noDate
    /\ endDate = noDate
    /\ warehouseFilter = all
    /\ vehicleFilter = all
    /\ currentPage = totalPages
    /\ lastEvent = [ op |-> "render", from |-> currentPage ]
    /\ probe = noProbe
    /\ sideAtMount
    /\ mutationAtMount
    /\ authSignedIn

NextCreate ==
    \/ ToggleForm
    \/ FormChange
    \/ SubmitClick
    \/ CreateSuccess
    \/ CreateError

SpecCreate == InitCreate /\ [][NextCreate]_vars

-----------------------------------------------------------------------------
(* Properties of the record filter *)

\* F is R with some positions removed: same records, same relative order
RECURSIVE IsSubsequence(_, _)
IsSubsequence(F, R) ==
    IF F = << >> THEN TRUE
    ELSE IF R = << >> THEN FALSE
    ELSE IF Head(F) = Head(R) THEN IsSubsequence(Tail(F), Tail(R))
    ELSE IsSubsequence(F, Tail(R))

Occurs(r, F) == \E j \in 1..Len(F) : F[j] = r

\* the instant of a record
InstantOf(r) == r.date.day * MinutesPerDay + r.date.minute

\* the four predicates of the filter, as the specification words them
TextPredicate(r, S) ==
    \/ S.searchQuery = empty
    \/ includes(toString(r.dealer_code), S.searchQuery)
    \/ includes(toLowerCase(r.warehouse), toLowerCase(S.searchQuery))
    \/ includes(toLowerCase(r.vehicle), toLowerCase(S.searchQuery))
    \/ includes(r.product_code, S.searchQuery)

DatePredicate(r, S) ==
    /\ S.startDate = noDate \/ InstantOf(r) >= S.startDate * MinutesPerDay
    /\ S.endDate = noDate \/ InstantOf(r) <= S.endDate * MinutesPerDay

WarehousePredicate(r, S) == S.warehouseFilter = all \/ S.warehouseFilter = r.warehouse

VehiclePredicate(r, S) == S.vehicleFilter = all \/ S.vehicleFilter = r.vehicle

filterApplied == probe.fn = "filter" /\ probe.done

\* C1: the filtered list is a subsequence of the record list in its original
\* order, and a record is retained exactly when it passes the text, date range,
\* warehouse and vehicle predicates (an unset predicate passes).
C1_FilterIsStableSelection ==
    filterApplied =>
        /\ IsSubsequence(probe.result, probe.data)
        /\ \A i \in 1..Len(probe.data) :
              Occurs(probe.data[i], probe.result)
              <=> /\ TextPredicate(probe.data[i], probe.state)
                  /\ DatePredicate(probe.data[i], probe.state)
                  /\ WarehousePredicate(probe.data[i], probe.state)
                  /\ VehiclePredicate(probe.data[i], probe.state)

\* a three-record list whose middle record alone is dropped, by an end date
C1_Witness ==
    /\ filterApplied
    /\ Len(probe.data) = 3
    /\ probe.result = << probe.data[1], probe.data[3] >>
    /\ probe.state.endDate # noDate

\* C2: with a non-empty query a record matches exactly when the query occurs in
\* the decimal dealer code, in the warehouse or vehicle ignoring case, or in the
\* product code as written; and re-casing the query changes no match.
C2_TextSearchFields ==
    (probe.fn = "matchesSearch" /\ probe.done /\ probe.query # empty) =>
        /\ probe.result
           <=> \/ includes(toString(probe.shipment.dealer_code), probe.query)
               \/ includes(toLowerCase(probe.shipment.warehouse), toLowerCase(probe.query))
               \/ includes(toLowerCase(probe.shipment.vehicle), toLowerCase(probe.query))
               \/ includes(probe.shipment.product_code, probe.query)
        /\ \A q \in ProbeQueries :
              toLowerCase(q) = toLowerCase(probe.query)
              => matchesSearch(probe.shipment, q) = probe.result

\* an upper-case query matching the warehouse only
C2_Witness ==
    /\ probe.fn = "matchesSearch"
    /\ probe.done
    /\ probe.query = << "N", "A" >>
    /\ probe.shipment.warehouse = NAG
    /\ probe.shipment.vehicle = Autorickshaw
    /\ probe.result

\* the instant isDateInRange is asked about
ProbeInstant ==
    IF probe.date.type = "string"
    THEN probe.date.day * MinutesPerDay + probe.date.minute
    ELSE probe.date.time

\* C3: isDateInRange returns false exactly when a present start is after the
\* instant or a present end is before it; both bounds are inclusive, and with
\* no bound it returns true.
C3_DateInRange ==
    (probe.fn = "isDateInRange" /\ probe.done) =>
        /\ ~probe.result
           <=> \/ probe.start # null /\ ProbeInstant < probe.start.time
               \/ probe.end # null /\ ProbeInstant > probe.end.time
        /\ (probe.start # null /\ probe.end # null
            /\ (ProbeInstant = probe.start.time \/ ProbeInstant = probe.end.time)
            /\ probe.start.time <= probe.end.time) => probe.result
        /\ (probe.start = null /\ probe.end = null) => probe.result

\* an instant equal to the end bound, with a start bound before it
C3_Witness ==
    /\ probe.fn = "isDateInRange"
    /\ probe.done
    /\ probe.start # null
    /\ probe.end # null
    /\ probe.start.time < probe.end.time
    /\ ProbeInstant = probe.end.time
    /\ probe.result

\* C4: with end date D selected (and nothing else), every record dated on day
\* D, at whatever time, is retained.
C4_EndDayIsInclusive ==
    (/\ queryStatus = "success"
     /\ endDate # noDate
     /\ filterState = [ emptyFilterState EXCEPT !.endDate = endDate ]) =>
        \A i \in 1..Len(shipments) :
            shipments[i].date.day = endDate => Occurs(shipments[i], filteredShipments)

\* the records that pass the warehouse and the vehicle selection of S
PassCategorical(data, S) ==
    LET pass(r) == WarehousePredicate(r, S) /\ VehiclePredicate(r, S)
    IN  SelectSeq(data, pass)

\* C5: the warehouse and the vehicle selection each pass a record exactly when
\* "all" or the record's own value is selected, independently of each other and
\* of the query and the dates.
C5_CategoricalFilters ==
    filterApplied =>
        LET S == probe.state
            others == [ S EXCEPT !.warehouseFilter = all, !.vehicleFilter = all ]
            onlyWarehouse == [ emptyFilterState EXCEPT !.warehouseFilter = S.warehouseFilter ]
            onlyVehicle == [ emptyFilterState EXCEPT !.vehicleFilter = S.vehicleFilter ]
        IN  /\ probe.result = PassCategorical(filterShipments(probe.data, others), S)
            /\ filterShipments(probe.data, onlyWarehouse)
                  = PassCategorical(probe.data, onlyWarehouse)
            /\ filterShipments(probe.data, onlyVehicle)
                  = PassCategorical(probe.data, onlyVehicle)

\* a warehouse and a vehicle selected together with a query, keeping one record
C5_Witness ==
    /\ filterApplied
    /\ probe.state.warehouseFilter = NAG
    /\ probe.state.vehicleFilter = Autorickshaw
    /\ probe.state.searchQuery # empty
    /\ Len(probe.data) = 3
    /\ Len(probe.result) = 1

\* C6: the all-empty FilterState returns every record in order, and an empty
\* record list returns an empty list under every FilterState.
C6_EmptyStateIsIdentity ==
    filterApplied =>
        /\ probe.state = emptyFilterState => probe.result = probe.data
        /\ probe.data = << >> => probe.result = << >>

C6_Witness ==
    /\ filterApplied
    /\ probe.state = emptyFilterState
    /\ Len(probe.data) = MaxFilterLen
    /\ probe.result = probe.data

\* C7: filtering the filtered list again with the same FilterState changes
\* nothing.
C7_FilterIdempotent ==
    filterApplied => filterShipments(probe.result, probe.state) = probe.result

\* a filter that dropped some records and kept others
C7_Witness ==
    /\ filterApplied
    /\ Len(probe.result) > 0
    /\ Len(probe.result) < Len(probe.data)
    /\ probe.state.startDate # noDate

-----------------------------------------------------------------------------
(* Properties of pagination and of the page state *)

\* the records of F at zero-based positions from .. to, clipped to F
Positions(F, from, to) ==
    [ k \in 1..Max(0, Min(to, Len(F) - 1) - from + 1) |-> F[from + k] ]

\* C8: the displayed page is the filtered records at zero-based positions
\* (p-1)*P .. p*P-1, clipped to the filtered list, in filtered order.
C8_PageIsSliceOfFiltered ==
    paginatedShipments
        = Positions(filteredShipments, (currentPage - 1) * ITEMS_PER_PAGE,
                    currentPage * ITEMS_PER_PAGE - 1)

\* a short second page of a filtered list that is shorter than the fetched one
C8_Witness ==
    /\ currentPage = 2
    /\ Len(filteredShipments) < Len(shipments)
    /\ Len(paginatedShipments) > 0
    /\ Len(paginatedShipments) < ITEMS_PER_PAGE

RECURSIVE PagesUpTo(_, _)
PagesUpTo(F, n) == IF n = 0 THEN << >> ELSE PagesUpTo(F, n - 1) \o paginate(F, n)

\* C9: the pages 1..totalPages concatenated are the filtered list; every page
\* but the last holds ITEMS_PER_PAGE records, and the last page is empty only
\* when the filtered list is.
C9_PagesPartitionFiltered ==
    LET F == filteredShipments
    IN  /\ PagesUpTo(F, totalPages) = F
        /\ \A p \in 1..(totalPages - 1) : Len(paginate(F, p)) = ITEMS_PER_PAGE
        /\ F # << >> => Len(paginate(F, totalPages)) > 0

\* three pages, the last one short
C9_Witness ==
    /\ totalPages = 3
    /\ Len(paginate(filteredShipments, 3)) < ITEMS_PER_PAGE
    /\ Len(paginate(filteredShipments, 3)) > 0

\* C10: every change of the FilterState (query, start date, end date,
\* warehouse, vehicle, clear-all) sets the page to 1 in the same step.
C10_FilterChangeResetsPage ==
    [][filterState' # filterState => currentPage' = 1]_vars

FilterOps == { "search", "startDate", "endDate", "warehouse", "vehicle", "clear" }

\* a filter input changed while a later page was shown
C10_Witness ==
    /\ lastEvent.op \in FilterOps \ { "clear" }
    /\ lastEvent.from > 1
    /\ currentPage = 1

-----------------------------------------------------------------------------
(* Properties of page navigation *)

\* C11: a click on Next sets the page to min(totalPages, page + 1) and a
\* click on Previous to max(1, page - 1); on the last page Next changes
\* nothing and on page 1 Previous changes nothing; a page inside
\* 1..totalPages stays inside 1..totalPages under both.
C11_NavigationClamped ==
    [][ /\ lastEvent'.op = "next" =>
              /\ currentPage' = Min(totalPages, currentPage + 1)
              /\ (currentPage = totalPages => currentPage' = currentPage)
        /\ lastEvent'.op = "previous" =>
              /\ currentPage' = Max(1, currentPage - 1)
              /\ (currentPage = 1 => currentPage' = currentPage)
        /\ ( /\ lastEvent'.op \in { "next", "previous" }
             /\ currentPage \in 1..totalPages )
              => /\ currentPage' \in 1..totalPages'
                 /\ totalPages' = totalPages ]_vars

\* Next was clicked on the last of three pages and the page stayed there
C11_Witness ==
    /\ lastEvent.op = "next"
    /\ lastEvent.from = totalPages
    /\ currentPage = totalPages
    /\ totalPages = 3

\* C12: after any sequence of filter changes, navigations and refetches the
\* page satisfies 1 <= currentPage <= max(1, totalPages), and a filtered
\* list that is not empty is never shown as an empty page.
C12_PageWithinTotalPages ==
    /\ currentPage >= 1
    /\ currentPage <= Max(1, totalPages)
    /\ (filteredShipments # << >> => paginatedShipments # << >>)

\* C13: a page index beyond totalPages shows the rows of the last page.
C13_PastEndShowsLastPage ==
    (totalPages >= 1 /\ currentPage > totalPages)
        => paginatedShipments = paginate(filteredShipments, totalPages)

\* C14: totalPages is the ceiling of the filtered length over the page
\* size; with an empty filtered list it is 0, which is never displayed,
\* and no navigation is shown; the navigation is shown only when there is
\* more than one page.
C14_TotalPagesIsCeiling ==
    LET n == Len(filteredShipments) IN
    /\ totalPages \in Nat
    /\ totalPages * ITEMS_PER_PAGE >= n
    /\ (totalPages > 0 => (totalPages - 1) * ITEMS_PER_PAGE < n)
    /\ (n = 0 => totalPages = 0 /\ ~paginationShown)
    /\ (paginationShown => totalPages > 1)

\* records were fetched and the filters leave none of them: no navigation
C14_Witness ==
    /\ queryStatus = "success"
    /\ Len(shipments) > ITEMS_PER_PAGE
    /\ hasActiveFilters
    /\ filteredShipments = << >>
    /\ ~paginationShown

-----------------------------------------------------------------------------
(* Properties of the export *)

blank == Str(empty)

\* C15: every exported file has one row per record of the filtered,
\* unpaginated list, in the same order: row i carries the date, dealer,
\* warehouse, product code, vehicle and shipped quantity of filtered
\* record i, whatever the filters and the current page are.
C15_ExportIsFilteredList ==
    \A f \in 1..Len(exportedFiles) :
        LET rows == exportedFiles[f].data IN
        /\ Len(rows) = Len(filteredShipments)
        /\ \A i \in 1..Len(rows) :
              LET s == filteredShipments[i] IN
              /\ rows[i].Date = Str(formatDateTime(s.date))
              /\ rows[i].Dealer = Num(s.dealer_code)
              /\ rows[i].Warehouse = Str(s.warehouse)
              /\ rows[i].Product_Code = Str(s.product_code)
              /\ rows[i].Vehicle = Str(s.vehicle)
              /\ rows[i].Shipped = Num(s.shipped)

\* exported from page 2 with a filter set: the file has all the filtered
\* records, more than the page shows and fewer than were fetched
C15_Witness ==
    /\ Len(exportedFiles) > 0
    /\ hasActiveFilters
    /\ currentPage = 2
    /\ Len(exportedFiles[1].data) > ITEMS_PER_PAGE
    /\ Len(exportedFiles[1].data) < Len(shipments)
    /\ Len(paginatedShipments) < ITEMS_PER_PAGE

C17_BlankIffAbsent ==
    \A f \in 1..Len(exportedFiles) :
        LET rows == exportedFiles[f].data IN
        \A i \in 1..Len(rows) :
            LET s == filteredShipments[i] IN
            /\ rows[i].Returned =
                  (IF has(s, "returned") THEN Num(s.returned) ELSE blank)
            /\ rows[i].Damage_Rate =
                  (IF has(s, "damage_rate") THEN Str(toPercent(s.damage_rate)) ELSE blank)
            /\ rows[i].Loss_Value =
                  (IF has(s, "loss_value") THEN Num(s.loss_value) ELSE blank)
            /\ has(s, "returned") => rows[i].Returned # blank
            /\ has(s, "damage_rate") => rows[i].Damage_Rate # blank
            /\ has(s, "loss_value") => rows[i].Loss_Value # blank

\* C18: a click on Export CSV, whether it produces a file or is refused
\* for an empty list, leaves the fetched records, the filter state, the
\* current page and the state of the create form as they were.
C18_ExportChangesNoViewState ==
    [][ lastEvent'.op = "export" =>
          UNCHANGED << queryStatus, shipments, searchQuery, startDate, endDate,
                       warehouseFilter, vehicleFilter, currentPage,
                       showForm, form >> ]_vars

\* a file was exported from page 2 with a filter set and the form open
C18_Witness ==
    /\ lastEvent.op = "export"
    /\ Len(exportedFiles) = 1
    /\ currentPage = 2
    /\ hasActiveFilters
    /\ showForm
    /\ form # defaultForm

-----------------------------------------------------------------------------
(* Properties of form validation *)

productCodeError == Toast("error", "Product code must be exactly 9 digits")

\* exactly nine characters, each an ASCII digit
NineDigits(code) ==
    /\ Len(code) = 9
    /\ \A i \in 1..Len(code) :
          code[i] \in { "0", "1", "2", "3", "4", "5", "6", "7", "8", "9" }

\* C19 as claimed: on the create form and on the prediction form alike, a
\* submit with a product code that is not exactly nine digits is refused
\* with a product-code error (the browser reports the product code input
\* as invalid, or handleSubmit emits its product-code notification) and
\* nothing is sent; a product code of exactly nine digits draws neither.
C19_ProductCodeChecked ==
    lastEvent.op = "submit" =>
        IF NineDigits(form.product_code)
        THEN /\ "product_code" \notin flagged
             /\ \A t \in 1..Len(toasts) : toasts[t] # productCodeError
        ELSE /\ requests = << >>
             /\ \/ "product_code" \in flagged
                \/ /\ toasts # << >>
                   /\ toasts[Len(toasts)] = productCodeError

\* C19 amended: a submit with a product code that is not exactly nine
\* digits is refused on both forms and nothing is sent; the error is the
\* product-code error when the dealer code and the shipped quantity are
\* valid (else the error may be about those fields alone); a product code
\* of exactly nine digits draws no product-code error.
C19_ProductCodeCheckedRestValid ==
    lastEvent.op = "submit" =>
        IF NineDigits(form.product_code)
        THEN /\ "product_code" \notin flagged
             /\ \A t \in 1..Len(toasts) : toasts[t] # productCodeError
        ELSE /\ requests = << >>
             /\ flagged # { } \/ toasts # << >>
             /\ (form.dealer_code \in 1..100 /\ form.shipped >= 1)
                  => \/ flagged = { "product_code" }
                     \/ /\ flagged = { }
                        /\ toasts # << >>
                        /\ toasts[Len(toasts)] = productCodeError

\* the create form was submitted with an empty product code and all else
\* valid: handleSubmit refused it
C19_Witness ==
    /\ lastEvent.op = "submit"
    /\ view = "shipments"
    /\ form.product_code = empty
    /\ flagged = { }
    /\ toasts = << productCodeError >>
    /\ requests = << >>

\* C20: a submit of the create form with a dealer code outside 1..100 and
\* every other field valid is refused with an error on the dealer code
\* (the browser reports that input, and only it, as out of range) and
\* nothing is sent to the remote collaborator.
C20_DealerCodeChecked ==
    ( /\ lastEvent.op = "submit"
      /\ view = "shipments"
      /\ form.dealer_code \notin 1..100
      /\ NineDigits(form.product_code)
      /\ form.shipped >= 1 )
        => /\ flagged = { "dealer_code" }
           /\ requests = << >>

\* the create form was submitted with dealer code 0 and refused
C20_Witness ==
    /\ lastEvent.op = "submit"
    /\ view = "shipments"
    /\ form.dealer_code = 0
    /\ NineDigits(form.product_code)
    /\ form.shipped >= 1
    /\ flagged = { "dealer_code" }
    /\ requests = << >>

\* C21: a submit of the create form with a shipped quantity below 1 and
\* every other field valid is refused with an error on the quantity (the
\* browser reports that input, and only it, as out of range) and nothing
\* is sent to the remote collaborator.
C21_ShippedChecked ==
    ( /\ lastEvent.op = "submit"
      /\ view = "shipments"
      /\ form.shipped < 1
      /\ NineDigits(form.product_code)
      /\ form.dealer_code \in 1..100 )
        => /\ flagged = { "shipped" }
           /\ requests = << >>

\* the create form was submitted with quantity 0 and refused
C21_Witness ==
    /\ lastEvent.op = "submit"
    /\ view = "shipments"
    /\ form.shipped = 0
    /\ NineDigits(form.product_code)
    /\ form.dealer_code \in 1..100
    /\ flagged = { "shipped" }
    /\ requests = << >>

\* the fields pass every check: nine digits, dealer 1..100, quantity >= 1
FieldsValid(f) ==
    /\ NineDigits(f.product_code)
    /\ f.dealer_code \in 1..100
    /\ f.shipped >= 1

\* the notification of the first check of handleSubmit the fields fail
\* (the create form checks the product code only)
FirstFailure(page, f) ==
    IF page = "predictions" /\ f.dealer_code \notin 1..100
    THEN Toast("error", "Dealer code must be between 1 and 100")
    ELSE IF ~NineDigits(f.product_code) THEN productCodeError
    ELSE Toast("error", "Shipped quantity must be at least 1")

\* C22: a submit whose fields fail a check sends no request, shows exactly
\* one error (either the browser's report of the invalid controls, with no
\* notification of handleSubmit, or one notification of handleSubmit, for
\* the first check that fails) and leaves the form fields as entered.
C22_FailedValidationSendsNothing ==
    [][ (lastEvent'.op = "submit" /\ ~FieldsValid(form)) =>
          /\ requests' = requests
          /\ form' = form
          /\ \/ /\ flagged' # { }
                /\ toasts' = toasts
             \/ /\ flagged' = { }
                /\ toasts' = Append(toasts, FirstFailure(view, form)) ]_vars

\* the create form was submitted twice with an empty product code: one
\* notification per submit, nothing sent, the fields as entered
C22_Witness ==
    /\ lastEvent.op = "submit"
    /\ view = "shipments"
    /\ form.product_code = empty
    /\ form.dealer_code = 100
    /\ form.shipped = 1
    /\ toasts = << productCodeError, productCodeError >>
    /\ requests = << >>

-----------------------------------------------------------------------------
(* Properties of the create mutation *)

\* C23: when the remote collaborator rejects a create request, one error
\* notification is shown with the collaborator's detail message as it is
\* (the generic message when there is no detail or it is empty), no
\* request is sent again, the form stays as it was (open, with the fields
\* entered) and the mutation is no longer pending, so that the submit
\* button is enabled again.
C23_RejectionShownFormKept ==
    [][ lastEvent'.op = "createError" =>
          LET detail == lastEvent'.detail
              text == IF detail.type = "string" /\ detail.value # ""
                      THEN detail.value
                      ELSE "Failed to create shipment"
          IN  /\ toasts' = Append(toasts, Toast("error", text))
              /\ requests' = requests
              /\ showForm' = showForm
              /\ form' = form
              /\ mutationStatus # "idle"
              /\ mutationStatus' = "error"
              /\ createInFlight' = 0 ]_vars

\* a request was rejected with a detail message, shown as it is, and with
\* the form still open the user submitted again: the second request is
\* in flight
C23_Witness ==
    /\ Len(requests) = 2
    /\ settled = 1
    /\ toasts = << Toast("error", "Dealer 17 is not registered") >>
    /\ showForm
    /\ mutationStatus = "pending"
    /\ lastEvent.op = "submit"

\* C30: at most one create request is in flight, and one is in flight
\* exactly while the mutation is pending (the submit button disabled); a
\* request is sent only when every earlier one has been answered; on
\* success the shipment list is invalidated, the form is closed and its
\* fields are reset to the defaults, and the filters and the current page
\* stay as they were.
C30_OneCreateInFlight ==
    /\ [](createInFlight \in { 0, 1 })
    /\ [](createInFlight = 1 <=> mutationStatus = "pending")
    /\ [][ /\ requests' # requests =>
                /\ createInFlight = 0
                /\ mutationStatus # "pending"
                /\ Len(requests') = Len(requests) + 1
           /\ lastEvent'.op = "createSuccess" =>
                /\ invalidations' = invalidations + 1
                /\ showForm' = FALSE
                /\ form' = defaultForm
                /\ filterState' = filterState
                /\ currentPage' = currentPage
                /\ shipments' = shipments ]_vars

\* two shipments were created one after the other from the last page of a
\* filtered list: the form is closed and reset, the list was invalidated
\* twice, the filter and the page are kept
C30_Witness ==
    /\ lastEvent.op = "createSuccess"
    /\ Len(requests) = 2
    /\ settled = 2
    /\ requests[1].payload # defaultForm
    /\ invalidations = 2
    /\ ~showForm
    /\ form = defaultForm
    /\ hasActiveFilters
    /\ currentPage > 1

-----------------------------------------------------------------------------
(* Properties of the reset of the filters *)

\* C24: Clear All sets the query and both dates to empty, both selects to
\* "all" and the page to 1, after which the filtered list is the fetched
\* list; the button is rendered exactly when a filter differs from its
\* default.
C24_ResetClearsFilters ==
    /\ [](clearOffered <=> filterState # emptyFilterState)
    /\ [][ lastEvent'.op = "clear" =>
              /\ clearOffered
              /\ searchQuery' = << >>
              /\ startDate' = noDate
              /\ endDate' = noDate
              /\ warehouseFilter' = << "a", "l", "l" >>
              /\ vehicleFilter' = << "a", "l", "l" >>
              /\ currentPage' = 1
              /\ filteredShipments' = shipments' ]_vars

\* the filters were cleared from page 2 of a filtered list: all the
\* fetched records are listed again, from page 1
C24_Witness ==
    /\ lastEvent.op = "clear"
    /\ lastEvent.from = 2
    /\ currentPage = 1
    /\ Len(shipments) = MaxRecords
    /\ filteredShipments = shipments
    /\ ~clearOffered

-----------------------------------------------------------------------------
(* The session: AuthProvider, PrivateRoute, the routes of App and LoginPage *)

\* the routes of App wrapped in PrivateRoute and Layout
ProtectedPaths == { "/dashboard", "/predictions", "/shipments", "/analytics" }

\* the paths App has a route for
Paths == ProtectedPaths \cup { "/login", "/" }

\* the accounts the server knows; login with any other e-mail is refused
Accounts == { "alice", "bob" }

\* what is typed into LoginPage
Credentials == Accounts \cup { "mallory" }

\* access_token of a successful POST /auth/login
tokenOf(email) == IF email = "alice" THEN "issued-alice" ELSE "issued-bob"

\* the tokens a login of this page load can be given
IssuedTokens == { tokenOf(email) : email \in Accounts }

\* what localStorage can hold when the page loads: nothing, a token of an
\* earlier visit that is still good, or one that has expired
StoredAtLoad == { noToken, "stored-alice", "stored-expired" }

\* GET /auth/me answers a request carrying this token with a user
serverAccepts(token) == token \in IssuedTokens \cup { "stored-alice" }

\* the user GET /auth/me answers with
userOf(token) ==
    IF token \in { "issued-alice", "stored-alice" } THEN "alice" ELSE "bob"

\* LoginPage as it mounts
loginPageAtMount == [ error |-> "", isLoading |-> FALSE ]

\* login() is not running and has not completed since the last logout
noLogin == [ pc |-> "idle", email |-> "", sent |-> noToken, result |-> "none" ]

\* the messages LoginPage's catch can set: the detail of the response, or the
\* fallback when the error carries none
LoginErrors == { "detail", "Login failed. Please try again." }

\* PrivateRoute without the isLoading branch
routeElement_noLoadingCheck ==
    IF location = "/login" THEN "LoginPage"
    ELSE IF location = "/" THEN "NavigateDashboard"
    ELSE IF user # noUser THEN "Page"
    ELSE "NavigateLogin"

\* what App renders at the location: the element of the matching Route, and
\* for a protected path what PrivateRoute returns
routeElement ==
    IF location = "/login" THEN "LoginPage"
    ELSE IF location = "/" THEN "NavigateDashboard"
    ELSE IF authLoading THEN "Loading"
    ELSE IF user # noUser THEN "Page"
    ELSE "NavigateLogin"

\* value.isAuthenticated
isAuthenticated == user # noUser

\* the variables no session action changes
pageVars == << queryStatus, shipments, searchQuery, startDate, endDate,
               warehouseFilter, vehicleFilter, currentPage, probe,
               view, showForm, form, flagged, requests, toasts, exportedFiles,
               mutationStatus, settled, invalidations >>

\* the effect of AuthProvider runs initAuth up to its await: without a token
\* it ends at once, with one it installs the header and asks for the user
InitAuthStart ==
    /\ initAuth.pc = "start"
    /\ IF storedToken = noToken
       THEN /\ authLoading' = FALSE
            /\ initAuth' = [ pc |-> "done", sent |-> noToken ]
            /\ UNCHANGED authHeader
       ELSE /\ authHeader' = storedToken
            /\ initAuth' = [ pc |-> "awaitUser", sent |-> storedToken ]
            /\ UNCHANGED authLoading
    /\ lastEvent' = Event("initStart")
    /\ UNCHANGED << user, storedToken, location, loginCall, loginPage >>
    /\ UNCHANGED pageVars

\* getCurrentUser of initAuth resolves: setUser, then finally
InitAuthResolve ==
    /\ initAuth.pc = "awaitUser"
    /\ serverAccepts(initAuth.sent)
    /\ user' = userOf(initAuth.sent)
    /\ authLoading' = FALSE
    /\ initAuth' = [ initAuth EXCEPT !.pc = "done" ]
    /\ lastEvent' = Event("initResolve")
    /\ UNCHANGED << storedToken, authHeader, location, loginCall, loginPage >>
    /\ UNCHANGED pageVars

\* InitAuthReject without the finally block
InitAuthReject_noFinally ==
    /\ initAuth.pc = "awaitUser"
    /\ storedToken' = noToken
    /\ authHeader' = noToken
    /\ initAuth' = [ initAuth EXCEPT !.pc = "done" ]
    /\ lastEvent' = Event("initReject")
    /\ UNCHANGED << user, authLoading, location, loginCall, loginPage >>
    /\ UNCHANGED pageVars

\* getCurrentUser of initAuth rejects (the token is refused, or the request
\* fails): the catch removes the token and the header, then finally
InitAuthReject ==
    /\ initAuth.pc = "awaitUser"
    /\ storedToken' = noToken
    /\ authHeader' = noToken
    /\ authLoading' = FALSE
    /\ initAuth' = [ initAuth EXCEPT !.pc = "done" ]
    /\ lastEvent' = Event("initReject")
    /\ UNCHANGED << user, location, loginCall, loginPage >>
    /\ UNCHANGED pageVars

\* LoginPage.handleSubmit up to the await inside login(): the button is
\* disabled while isLoading
LoginSubmit ==
    /\ routeElement = "LoginPage"
    /\ initAuth.pc # "start"
    /\ ~loginPage.isLoading
    /\ \E email \in Credentials :
          loginCall' = [ pc |-> "awaitToken", email |-> email,
                         sent |-> noToken, result |-> "none" ]
    /\ loginPage' = [ error |-> "", isLoading |-> TRUE ]
    /\ lastEvent' = Event("loginSubmit")
    /\ UNCHANGED << user, authLoading, storedToken, authHeader, location,
                    initAuth >>
    /\ UNCHANGED pageVars

\* apiLogin resolves: the token is stored and installed, getCurrentUser is sent
LoginTokenResolve ==
    /\ loginCall.pc = "awaitToken"
    /\ loginCall.email \in Accounts
    /\ storedToken' = tokenOf(loginCall.email)
    /\ authHeader' = tokenOf(loginCall.email)
    /\ loginCall' = [ loginCall EXCEPT !.pc = "awaitUser",
                                       !.sent = tokenOf(loginCall.email) ]
    /\ lastEvent' = Event("loginTokenResolve")
    /\ UNCHANGED << user, authLoading, location, initAuth, loginPage >>
    /\ UNCHANGED pageVars

\* apiLogin rejects: login() throws, LoginPage's catch and finally run
LoginTokenReject ==
    /\ loginCall.pc = "awaitToken"
    /\ \E message \in LoginErrors :
          loginPage' = [ error |-> message, isLoading |-> FALSE ]
    /\ loginCall' = [ loginCall EXCEPT !.pc = "idle", !.result = "failed" ]
    /\ lastEvent' = Event("loginTokenReject")
    /\ UNCHANGED << user, authLoading, storedToken, authHeader, location,
                    initAuth >>
    /\ UNCHANGED pageVars

\* getCurrentUser of login resolves: setUser and navigate("/dashboard");
\* LoginPage unmounts
LoginUserResolve ==
    /\ loginCall.pc = "awaitUser"
    /\ serverAccepts(loginCall.sent)
    /\ user' = userOf(loginCall.sent)
    /\ location' = "/dashboard"
    /\ loginCall' = [ loginCall EXCEPT !.pc = "idle", !.result = "ok" ]
    /\ loginPage' = loginPageAtMount
    /\ lastEvent' = Event("loginUserResolve")
    /\ UNCHANGED << authLoading, storedToken, authHeader, initAuth >>
    /\ UNCHANGED pageVars

\* getCurrentUser of login rejects: login() throws after the token was stored
\* and installed, LoginPage's catch and finally run
LoginUserReject ==
    /\ loginCall.pc = "awaitUser"
    /\ \E message \in LoginErrors :
          loginPage' = [ error |-> message, isLoading |-> FALSE ]
    /\ loginCall' = [ loginCall EXCEPT !.pc = "idle", !.result = "failed" ]
    /\ lastEvent' = Event("loginUserReject")
    /\ UNCHANGED << user, authLoading, storedToken, authHeader, location,
                    initAuth >>
    /\ UNCHANGED pageVars

\* onClick of Layout's logout button, rendered with a protected page
Logout ==
    /\ routeElement = "Page"
    /\ storedToken' = noToken
    /\ authHeader' = noToken
    /\ user' = noUser
    /\ location' = "/login"
    /\ loginCall' = noLogin
    /\ loginPage' = loginPageAtMount
    /\ lastEvent' = Event("logout")
    /\ UNCHANGED << authLoading, initAuth >>
    /\ UNCHANGED pageVars

\* a navigation link of Layout
NavLink ==
    /\ routeElement = "Page"
    /\ \E path \in ProtectedPaths \ { location } : location' = path
    /\ lastEvent' = Event("navigate")
    /\ UNCHANGED << user, authLoading, storedToken, authHeader, initAuth,
                    loginCall, loginPage >>
    /\ UNCHANGED pageVars

\* <Navigate to="/login"> returned by PrivateRoute takes effect
Redirect ==
    /\ routeElement = "NavigateLogin"
    /\ location' = "/login"
    /\ loginPage' = loginPageAtMount
    /\ lastEvent' = Event("redirect")
    /\ UNCHANGED << user, authLoading, storedToken, authHeader, initAuth,
                    loginCall >>
    /\ UNCHANGED pageVars

\* <Navigate to="/dashboard"> of the route "/" takes effect
RootRedirect ==
    /\ routeElement = "NavigateDashboard"
    /\ location' = "/dashboard"
    /\ lastEvent' = Event("rootRedirect")
    /\ UNCHANGED << user, authLoading, storedToken, authHeader, initAuth,
                    loginCall, loginPage >>
    /\ UNCHANGED pageVars

\* the page loads at any path with anything in localStorage
InitAuth ==
    /\ queryStatus = "pending"
    /\ shipments = << >>
    /\ searchQuery = empty
    /\ startDate = noDate
    /\ endDate = noDate
    /\ warehouseFilter = all
    /\ vehicleFilter = all
    /\ currentPage = 1
    /\ lastEvent = [ op |-> "mount", from |-> 1 ]
    /\ probe = noProbe
    /\ sideAtMount
    /\ mutationAtMount
    /\ user = noUser
    /\ authLoading = TRUE
    /\ storedToken \in StoredAtLoad
    /\ authHeader = noToken
    /\ location \in Paths
    /\ initAuth = [ pc |-> "start", sent |-> noToken ]
    /\ loginCall = noLogin
    /\ loginPage = loginPageAtMount

NextAuth ==
    \/ InitAuthStart
    \/ InitAuthResolve
    \/ InitAuthReject
    \/ LoginSubmit
    \/ LoginTokenResolve
    \/ LoginTokenReject
    \/ LoginUserResolve
    \/ LoginUserReject
    \/ Logout
    \/ NavLink
    \/ Redirect
    \/ RootRedirect

SpecAuth == InitAuth /\ [][NextAuth]_vars

\* the effect runs after the first render, and the request it sends completes
SpecAuthLive ==
    /\ InitAuth
    /\ [][NextAuth]_vars
    /\ WF_vars(InitAuthStart)
    /\ WF_vars(InitAuthResolve \/ InitAuthReject)

-----------------------------------------------------------------------------
(* Properties of the session *)

\* initAuth and a login have both run to their end, the login with success
bothCompleted ==
    /\ initAuth.pc = "done"
    /\ loginCall.pc = "idle"
    /\ loginCall.result = "ok"

\* C25: a completion of a superseded request is never applied; for
\* AuthProvider: once the mount-time getCurrentUser and the getCurrentUser of
\* a later login have both completed, in whatever order, the session is the
\* one of the login: its user, its token in localStorage and in the header.
C25_NewerRequestWins ==
    bothCompleted =>
        /\ user = userOf(loginCall.sent)
        /\ storedToken = loginCall.sent
        /\ authHeader = loginCall.sent

\* C26: a protected page is rendered only when isLoading is false and user is
\* non-null; while isLoading is true the placeholder is shown and no redirect
\* happens; when isLoading is false and user is null the route redirects to
\* /login.
C26_ProtectedNeedsUser ==
    /\ [](routeElement = "Page" => (~authLoading /\ user # noUser))
    /\ []((location \in ProtectedPaths /\ authLoading)
            => routeElement = "Loading")
    /\ []((location \in ProtectedPaths /\ ~authLoading /\ user = noUser)
            => (routeElement = "NavigateLogin" /\ ENABLED Redirect))
    /\ [][(location \in ProtectedPaths /\ authLoading)
            => location' = location]_vars
    /\ [][lastEvent'.op = "redirect"
            => (/\ ~authLoading
                /\ user = noUser
                /\ location \in ProtectedPaths
                /\ location' = "/login")]_vars

\* the placeholder is shown while the stored token is checked, a page once it
\* is accepted
C26_Witness ==
    /\ location \in ProtectedPaths
    /\ lastEvent.op = "initResolve"
    /\ routeElement = "Page"

\* C27: isAuthenticated implies that a token is stored in localStorage and
\* the Authorization header is set, under every interleaving of initAuth with
\* a login performed while it is in flight.
C27_AuthenticatedHasToken ==
    isAuthenticated => (storedToken # noToken /\ authHeader # noToken)

\* the two ways login() fails
loginFailed(event) == event.op \in { "loginTokenReject", "loginUserReject" }

\* C28: if login fails at any step the session is left as it was before the
\* attempt: user is not changed, no token of the attempt remains in
\* localStorage or in the header, and there is no navigation to /dashboard.
C28_FailedLoginLeavesSession ==
    [][loginFailed(lastEvent')
        => (/\ user' = user
            /\ location' = location
            /\ storedToken' \notin IssuedTokens
            /\ authHeader' \notin IssuedTokens)]_vars

\* C29: after AuthProvider mounts isLoading eventually becomes false on every
\* path, given that getCurrentUser completes, and stays false; the rejected
\* path removes the stored token and the header and does not set user (null
\* before, null after); the accepted path sets user; the path without a token
\* sends nothing.
C29_InitAuthSettles ==
    /\ <>[](~authLoading)
    /\ [](authLoading <=> initAuth.pc # "done")
    /\ [][lastEvent'.op = "initReject"
            => (/\ storedToken' = noToken
                /\ authHeader' = noToken
                /\ user' = user
                /\ ~authLoading')]_vars
    /\ [][lastEvent'.op = "initResolve"
            => (/\ user' = userOf(initAuth.sent)
                /\ user' # noUser
                /\ ~authLoading')]_vars
    /\ [][(lastEvent'.op = "initStart" /\ storedToken = noToken)
            => (/\ ~authLoading'
                /\ user' = noUser
                /\ authHeader' = noToken)]_vars

\* the stored token was refused: nothing is stored, nobody is signed in
C29_Witness ==
    /\ lastEvent.op = "initReject"
    /\ initAuth.sent = "stored-expired"
    /\ ~authLoading
    /\ user = noUser
    /\ storedToken = noToken
    /\ authHeader = noToken

====
